---- MODULE Spec2Model ----
(***************************************************************************)
(* The Hocuspocus persistence adapter of src/src/server.js: the two hooks  *)
(* of the Database extension, fetch and store, over the ticket_documents   *)
(* table of the backing store.                                             *)
(*                                                                         *)
(* JavaScript strings are sequences of character codes, byte arrays are    *)
(* sequences of 0..255.  The platform functions the hooks call (btoa,      *)
(* atob, Buffer.from(s, "hex"), Buffer#toString) are operators computing   *)
(* what the platform computes.                                             *)
(***************************************************************************)
EXTENDS Integers, Sequences, FiniteSets, TLC

\* ------------------------------------------------------------- bounds
\* longest leading part of the scenario bytes handed to store, beside the whole
MaxLen == 2
\* number of distinct values of new Date() the adapter specification draws
MaxClock == 1
\* longest byte sequence the codec specification draws
MaxCodecLen == 3
\* number of distinct byte values the codec specification draws
NumCodecBytes == 4

\* ------------------------------------------------- character constants
ByteRange == 256
Backslash == 92
LowerX == 120
PadChar == 61
PlusChar == 43
SlashChar == 47
UpperA == 65
LowerA == 97
DigitZero == 48

\* ------------------------------------------------------ small helpers
BoundedSeq(S, n) == UNION { [1..k -> S] : k \in 0..n }

Take(s, n) == SubSeq(s, 1, IF n < Len(s) THEN n ELSE Len(s))
Drop(s, n) == SubSeq(s, n + 1, Len(s))

\* ------------------------------------------------------------ base64
\* the character of a 6-bit value in the standard alphabet
B64Char(v) ==
    IF v < 26 THEN UpperA + v
    ELSE IF v < 52 THEN LowerA + (v - 26)
    ELSE IF v < 62 THEN DigitZero + (v - 52)
    ELSE IF v = 62 THEN PlusChar
    ELSE SlashChar

\* the 6-bit value of a character of the standard alphabet, -1 for any other
B64Val(c) ==
    IF c >= UpperA /\ c < UpperA + 26 THEN c - UpperA
    ELSE IF c >= LowerA /\ c < LowerA + 26 THEN c - LowerA + 26
    ELSE IF c >= DigitZero /\ c < DigitZero + 10 THEN c - DigitZero + 52
    ELSE IF c = PlusChar THEN 62
    ELSE IF c = SlashChar THEN 63
    ELSE -1

\* btoa: three bytes become four characters, the tail is padded with '='
btoa(bin) ==
    LET n == Len(bin)
        Byte(i) == IF i <= n THEN bin[i] ELSE 0
        Char(j) ==
            LET k == 3 * ((j - 1) \div 4)
                pos == (j - 1) % 4
            IN  IF pos = 0 THEN B64Char(Byte(k + 1) \div 4)
                ELSE IF pos = 1
                THEN B64Char((Byte(k + 1) % 4) * 16 + Byte(k + 2) \div 16)
                ELSE IF pos = 2
                THEN IF k + 2 <= n
                     THEN B64Char((Byte(k + 2) % 16) * 4 + Byte(k + 3) \div 64)
                     ELSE PadChar
                ELSE IF k + 3 <= n THEN B64Char(Byte(k + 3) % 64) ELSE PadChar
    IN  [j \in 1..(4 * ((n + 2) \div 3)) |-> Char(j)]

\* new Uint8Array(x): every element is kept modulo 256
Uint8Array(x) == [i \in 1..Len(x) |-> x[i] % ByteRange]

\* String.fromCharCode applied to each byte in turn: the binary string
FromCharCodes(bytes) == [i \in 1..Len(bytes) |-> bytes[i] % 65536]

\* the bytes of a run of 6-bit values: a trailing group of two values gives one
\* byte, of three values two bytes, a single trailing value none
SextetsToBytes(v) ==
    LET ByteAt(i) ==
            LET k == 4 * ((i - 1) \div 3)
                pos == (i - 1) % 3
            IN  IF pos = 0 THEN v[k + 1] * 4 + v[k + 2] \div 16
                ELSE IF pos = 1 THEN (v[k + 2] % 16) * 16 + v[k + 3] \div 4
                ELSE (v[k + 3] % 4) * 64 + v[k + 4]
    IN  [i \in 1..((3 * Len(v)) \div 4) |-> ByteAt(i)]

IsAsciiWhitespace(c) == c \in {9, 10, 12, 13, 32}

StripWhitespace(s) == SelectSeq(s, LAMBDA c : ~IsAsciiWhitespace(c))

\* atob step 2: with a length divisible by four, one or two trailing '=' go
StripPadding(s) ==
    IF Len(s) % 4 = 0 /\ Len(s) > 0 /\ s[Len(s)] = PadChar
    THEN IF s[Len(s) - 1] = PadChar THEN Take(s, Len(s) - 2)
         ELSE Take(s, Len(s) - 1)
    ELSE s

\* atob throws InvalidCharacterError on these inputs
atobThrows(s) ==
    LET t == StripPadding(StripWhitespace(s))
    IN  \/ Len(t) % 4 = 1
        \/ \E i \in 1..Len(t) : B64Val(t[i]) = -1

\* atob on an input it accepts: the binary string
atob(s) ==
    LET t == StripPadding(StripWhitespace(s))
    IN  SextetsToBytes([i \in 1..Len(t) |-> B64Val(t[i])])

\* ------------------------------------------------------------ hex
HexVal(c) ==
    IF c >= DigitZero /\ c < DigitZero + 10 THEN c - DigitZero
    ELSE IF c >= LowerA /\ c < LowerA + 6 THEN c - LowerA + 10
    ELSE IF c >= UpperA /\ c < UpperA + 6 THEN c - UpperA + 10
    ELSE -1

HexDigit(v) == IF v < 10 THEN DigitZero + v ELSE LowerA + (v - 10)

\* Buffer.from(s, "hex"): pairs of digits, cut at the first pair that is not
\* two hexadecimal digits; a trailing single character is dropped
BufferFromHex(s) ==
    LET pairs == Len(s) \div 2
        bad == { k \in 1..pairs :
                   HexVal(s[2 * k - 1]) = -1 \/ HexVal(s[2 * k]) = -1 }
        n == IF bad = {} THEN pairs
             ELSE (CHOOSE k \in bad : \A j \in bad : k <= j) - 1
    IN  [k \in 1..n |-> HexVal(s[2 * k - 1]) * 16 + HexVal(s[2 * k])]

\* Buffer#toString("binary"): one character per byte
ToBinaryString(buf) == buf

\* the hexadecimal text of bytes, two lower-case digits each
HexEncode(bytes) ==
    [j \in 1..(2 * Len(bytes)) |->
        IF j % 2 = 1 THEN HexDigit(bytes[(j + 1) \div 2] \div 16)
        ELSE HexDigit(bytes[j \div 2] % 16)]

\* Buffer#toString("utf8") of ASCII bytes and the UTF-8 bytes of an ASCII
\* string: the model's column texts are ASCII, where both keep every code
Utf8Bytes(s) == [i \in 1..Len(s) |-> s[i] % ByteRange]

\* ------------------------------------------------------- the table
Ids == {"ticket-42", "ticket-43"}

\* a column value as the client hands it over: null, a string, a Buffer or
\* a value of another type
NullCol == [kind |-> "null", v |-> << >>]
Str(s) == [kind |-> "str", v |-> s]
Buf(b) == [kind |-> "buf", v |-> b]
NumCol == [kind |-> "num", v |-> << 7 >>]

\* the document states the collaboration engine hands to store: the bytes
\* 0,1,2,253,254,255 and the leading bytes of their repetition
Scenario == << 0, 1, 2, 253, 254, 255 >>
States ==
    { [i \in 1..k |-> Scenario[((i - 1) % Len(Scenario)) + 1]] : k \in 0..MaxLen }
        \cup { Scenario }

\* values of new Date().toISOString() at the calls of store; 0 is the time
\* of rows written before the server started
Times == 1..MaxClock

\* column values of rows that were not written by store
LegacyCols ==
    { NullCol, Str(<< >>), Str(<< 33, 33, 33, 33 >>),
      Str(<< Backslash, LowerX, 90, 90 >>), Buf(<< 1, 2 >>), NumCol }

\* an optional value: no value, or one value
None == << >>
Some(x) == << x >>

PGRST116 == "PGRST116"
\* an error code the store reports for a request it did not serve
OtherErrors == {"08006"}
\* an exception of the client: the awaited promise rejects
Rejected == "TypeError: fetch failed"

\* table: the rows of ticket_documents
\* stored: per id, the state of the last store the backing store applied
\* replaced: per id, what the last applied store found in place of its row:
\*   "no" nothing written by store, "same" the same state, "other" another
\* last: the call that completed last, with its result
\* cbytes, ccol, cres, cpc: the codec specification's input bytes, column
\*   value, decoding result and position
\* cvia: the encoder that wrote ccol, the decoder that read it and its branch
\* calls: per caller of the concurrent specification, its call in flight
VARIABLES table, stored, replaced, last, cbytes, ccol, cres, cpc, cvia, calls
vars == << table, stored, replaced, last, cbytes, ccol, cres, cpc, cvia, calls >>
adapterVars == << table, stored, replaced, last >>
codecVars == << cbytes, ccol, cres, cpc, cvia >>
concVars == << calls >>

RowsOf(t, id) == { r \in t : r.ticket_id = id }

\* ------------------------------------------------------- results
Null == [kind |-> "null", v |-> << >>, cause |-> "none"]
Bytes(b) == [kind |-> "bytes", v |-> b, cause |-> "none"]
Undefined == [kind |-> "undefined", v |-> << >>, cause |-> "none"]
Thrown(e) == [kind |-> "throw", v |-> << >>, cause |-> e]

\* try { body } catch (error) { handler }: the handler's result replaces a
\* throw of the body
TryCatch(body, handler) == IF body.kind = "throw" THEN handler ELSE body

\* mutant: on conflict only ydoc_state is updated and the row keeps its
\* earlier updated_at
Upsert_KeepsTimestamp(t, row) ==
    { r \in t : r.ticket_id # row.ticket_id }
        \cup IF \E r \in t : r.ticket_id = row.ticket_id
             THEN { [row EXCEPT !.updated_at = r.updated_at] :
                      r \in { x \in t : x.ticket_id = row.ticket_id } }
             ELSE { row }

\* ------------------------------------------------ the backing store
\* mutant: a plain insert, which adds the row beside the rows in place
Upsert_Insert(t, row) == t \cup { row }

\* upsert(row, { onConflict: "ticket_id" }): the row replaces every row of
\* the same ticket_id
Upsert(t, row) == { r \in t : r.ticket_id # row.ticket_id } \cup { row }

\* how the client surfaces a stored column: as it was written, or, from a
\* bytea column, as the \x-prefixed hexadecimal of the text that was written
Forms == {"asWritten", "escaped"}
Surface(col, form) ==
    IF form = "escaped" /\ col.kind = "str"
    THEN Str(<< Backslash, LowerX >> \o HexEncode(Utf8Bytes(col.v)))
    ELSE col

\* mutant: the query without .eq("ticket_id", id): single() over the table
SelectSingle_NoFilter(t, id, form) ==
    IF Cardinality(t) = 1
    THEN [data |-> Surface((CHOOSE r \in t : TRUE).ydoc_state, form),
          error |-> "none"]
    ELSE [data |-> [kind |-> "none", v |-> << >>], error |-> PGRST116]

\* select("ydoc_state").eq("ticket_id", id).single(): the row when exactly
\* one row matches, the error PGRST116 otherwise
NoData == [kind |-> "none", v |-> << >>]
SelectSingle(t, id, form) ==
    IF Cardinality(RowsOf(t, id)) = 1
    THEN [data |-> Surface((CHOOSE r \in RowsOf(t, id) : TRUE).ydoc_state, form),
          error |-> "none"]
    ELSE [data |-> NoData, error |-> PGRST116]

\* -------------------------------------------------------------- fetch
\* data.ydoc_state is truthy
Truthy(col) ==
    \/ col.kind = "buf"
    \/ col.kind = "str" /\ col.v # << >>
    \/ col.kind = "num" /\ col.v # << 0 >>

StartsWithPrefix(s) == Len(s) >= 2 /\ s[1] = Backslash /\ s[2] = LowerX

\* mutant: the copying loop stops one character early and the array is
\* sized to match
CharCodesToBytes_OffByOne(binaryString) ==
    Uint8Array(Take(binaryString, Len(binaryString) - 1))

\* the loop that copies binaryString.charCodeAt(i) into a Uint8Array
CharCodesToBytes(binaryString) == Uint8Array(binaryString)

\* mutant: the Buffer branch without its Buffer.isBuffer test, so that
\* new Uint8Array(value) takes every value that is not a string: a number n
\* gives n zero bytes
DecodeBody_AnyToBytes(col) ==
    IF col.kind = "buf" THEN Bytes(Uint8Array(col.v))
    ELSE IF col.kind = "str" THEN
        IF StartsWithPrefix(col.v)
        THEN Bytes(CharCodesToBytes(ToBinaryString(BufferFromHex(Drop(col.v, 2)))))
        ELSE IF atobThrows(col.v) THEN Thrown("InvalidCharacterError")
        ELSE Bytes(CharCodesToBytes(atob(col.v)))
    ELSE Bytes([i \in 1..col.v[1] |-> 0])

\* mutant: the base64 branch copies the column text without atob
DecodeBody_NoAtob(col) ==
    IF col.kind = "buf" THEN Bytes(Uint8Array(col.v))
    ELSE IF col.kind = "str" THEN
        IF StartsWithPrefix(col.v)
        THEN Bytes(CharCodesToBytes(ToBinaryString(BufferFromHex(Drop(col.v, 2)))))
        ELSE Bytes(CharCodesToBytes(col.v))
    ELSE Null

\* the body of the inner try of fetch
DecodeBody(col) ==
    IF col.kind = "buf" THEN Bytes(Uint8Array(col.v))
    ELSE IF col.kind = "str" THEN
        IF StartsWithPrefix(col.v)
        THEN Bytes(CharCodesToBytes(ToBinaryString(BufferFromHex(Drop(col.v, 2)))))
        ELSE IF atobThrows(col.v) THEN Thrown("InvalidCharacterError")
        ELSE Bytes(CharCodesToBytes(atob(col.v)))
    ELSE Null

\* the inner try with its catch (decodeError), which returns null
Decode(col) == TryCatch(DecodeBody(col), Null)

\* if (data && data.ydoc_state) { decode } and the return null after it
DecodeColumn(col) ==
    IF col.kind # "none" /\ Truthy(col) THEN Decode(col) ELSE Null

\* mutant: the not-found branch hands back an empty document
FetchBody_EmptyDocument(resp) ==
    IF resp.error # "none" THEN
        IF resp.error = PGRST116 THEN Bytes(<< >>) ELSE Thrown(resp.error)
    ELSE DecodeColumn(resp.data)

\* the body of the outer try of fetch, after the query was answered
FetchBody(resp) ==
    IF resp.error # "none" THEN
        IF resp.error = PGRST116 THEN Null ELSE Thrown(resp.error)
    ELSE DecodeColumn(resp.data)

\* mutant: fetch without its outer try/catch
FetchResult_NoCatch(resp) == FetchBody(resp)

\* the outer try with its catch (error), which returns null
FetchResult(resp) == TryCatch(FetchBody(resp), Null)

\* -------------------------------------------------------------- store
\* the base64 text store writes for a document state
Encode(state) == btoa(FromCharCodes(Uint8Array(state)))

UpsertRow(id, state, now) ==
    [ticket_id |-> id, ydoc_state |-> Str(Encode(state)), updated_at |-> now]

\* the body of the try of store, after the upsert was answered
StoreBody(error) == IF error # "none" THEN Thrown(error) ELSE Undefined

\* mutant: the catch logs the error and does not throw it again
StoreResult_Swallowed(error) == TryCatch(StoreBody(error), Undefined)

\* the try with its catch (error), which throws the error again
StoreResult(error) ==
    LET body == StoreBody(error)
    IN  TryCatch(body, Thrown(body.cause))

\* ------------------------------------ the earlier variants of the codec
\* Buffer.from(s, "base64"): characters outside the alphabets are skipped,
\* '-' and '_' count as '+' and '/', decoding stops at the first '=', and a
\* single trailing 6-bit value gives no byte; it never throws
BufferFromBase64(s) ==
    LET B64ValLenient(c) ==
            IF c = 45 THEN 62 ELSE IF c = 95 THEN 63 ELSE B64Val(c)
        pads == { i \in 1..Len(s) : s[i] = PadChar }
        stop == IF pads = {} THEN Len(s)
                ELSE (CHOOSE i \in pads : \A j \in pads : i <= j) - 1
        kept == SelectSeq(Take(s, stop), LAMBDA c : B64ValLenient(c) # -1)
    IN  SextetsToBytes([i \in 1..Len(kept) |-> B64ValLenient(kept[i])])

\* Buffer#toString("utf8"): an ASCII byte is its character, a lead byte
\* C2..DF with a continuation byte after it is one character, and any other
\* byte becomes U+FFFD (longer sequences are not told apart: none of their
\* characters is ASCII either)
ToUtf8String(buf) ==
    LET IsLead(b) == b >= 194 /\ b <= 223
        IsCont(b) == b >= 128 /\ b <= 191
        Consumed(i) == i > 1 /\ IsLead(buf[i - 1]) /\ IsCont(buf[i])
        starts == SelectSeq([i \in 1..Len(buf) |-> i], LAMBDA i : ~Consumed(i))
        CharAt(i) ==
            IF buf[i] < 128 THEN buf[i]
            ELSE IF IsLead(buf[i]) /\ i < Len(buf) /\ IsCont(buf[i + 1])
            THEN (buf[i] - 192) * 64 + (buf[i + 1] - 128)
            ELSE 65533
    IN  [k \in 1..Len(starts) |-> CharAt(starts[k])]

\* mutant: the pattern without its anchors ^ and $ matches every string
IsBase64Text_Unanchored(s) == Len(s) >= 0

\* /^[A-Za-z0-9+/]*={0,2}$/.test(s)
IsBase64Text(s) ==
    \E k \in 0..2 :
        /\ k <= Len(s)
        /\ \A i \in 1..Len(s) :
              IF i <= Len(s) - k THEN B64Val(s[i]) # -1 ELSE s[i] = PadChar

\* the branch a string column takes in the variant that tests the '\x'
\* prefix first (part_000:400-464)
Branch_PrefixFirst(s) ==
    IF StartsWithPrefix(s) THEN "hex"
    ELSE IF IsBase64Text(s) THEN "base64"
    ELSE "raw"

\* the branch a string column takes in the variant that tests the base64
\* pattern first (part_000:113-158)
Branch_Base64First(s) ==
    IF IsBase64Text(s) THEN "base64"
    ELSE IF StartsWithPrefix(s) THEN "hex"
    ELSE "raw"

\* the decoder of the prefix-first variant: the hex text is the base64 text
DecodeBody_PrefixFirst(col) ==
    IF col.kind = "buf" THEN Bytes(Uint8Array(col.v))
    ELSE IF col.kind = "str" THEN
        CASE Branch_PrefixFirst(col.v) = "hex" ->
               Bytes(Uint8Array(BufferFromBase64(
                   ToUtf8String(BufferFromHex(Drop(col.v, 2))))))
          [] Branch_PrefixFirst(col.v) = "base64" ->
               Bytes(Uint8Array(BufferFromBase64(col.v)))
          [] OTHER -> Bytes(CharCodesToBytes(col.v))
    ELSE Null

\* the decoder of the base64-first variant: the hex text is the document
DecodeBody_Base64First(col) ==
    IF col.kind = "buf" THEN Bytes(Uint8Array(col.v))
    ELSE IF col.kind = "str" THEN
        CASE Branch_Base64First(col.v) = "base64" ->
               Bytes(Uint8Array(BufferFromBase64(col.v)))
          [] Branch_Base64First(col.v) = "hex" ->
               Bytes(Uint8Array(BufferFromHex(Drop(col.v, 2))))
          [] OTHER -> Bytes(CharCodesToBytes(col.v))
    ELSE Null

\* the decoder of the hex-only variant: only a prefixed string is decoded
DecodeBody_HexOnly(col) ==
    IF col.kind = "str" THEN
        IF StartsWithPrefix(col.v)
        THEN Bytes(Uint8Array(BufferFromBase64(
                 ToUtf8String(BufferFromHex(Drop(col.v, 2))))))
        ELSE Null
    ELSE Null

\* String(x) of a column value handed to atob
StringOf(col) ==
    IF col.kind = "str" THEN col.v
    ELSE IF col.kind = "buf" THEN ToUtf8String(col.v)
    ELSE [i \in 1..Len(col.v) |-> DigitZero + col.v[i]]

\* the decoder of the simplest variant: atob of whatever the column holds
DecodeBody_Simple(col) ==
    IF atobThrows(StringOf(col)) THEN Thrown("InvalidCharacterError")
    ELSE Bytes(CharCodesToBytes(atob(StringOf(col))))

Decoders == {"server", "prefixFirst", "base64First", "hexOnly", "simple"}

\* if (data && data.ydoc_state) { decode } else null, with the catch of
\* each variant, which returns null
DecodeColumnBy(dec, col) ==
    IF col.kind # "none" /\ Truthy(col)
    THEN CASE dec = "server" -> Decode(col)
           [] dec = "prefixFirst" -> TryCatch(DecodeBody_PrefixFirst(col), Null)
           [] dec = "base64First" -> TryCatch(DecodeBody_Base64First(col), Null)
           [] dec = "hexOnly" -> TryCatch(DecodeBody_HexOnly(col), Null)
           [] OTHER -> TryCatch(DecodeBody_Simple(col), Null)
    ELSE Null

\* the branch the decoder takes for a column value
BranchBy(dec, col) ==
    IF col.kind # "str" \/ ~Truthy(col) THEN "none"
    ELSE CASE dec = "server" ->
                IF StartsWithPrefix(col.v) THEN "hex" ELSE "base64"
           [] dec = "prefixFirst" -> Branch_PrefixFirst(col.v)
           [] dec = "base64First" -> Branch_Base64First(col.v)
           [] dec = "hexOnly" -> IF StartsWithPrefix(col.v) THEN "hex" ELSE "none"
           [] OTHER -> "base64"

\* Buffer#toString("base64"): each group of three bytes is one 24-bit
\* number cut into four 6-bit values; one or two bytes left over give two
\* or three characters and '=' up to four
BufferToBase64(buf) ==
    LET n == Len(buf)
        full == n \div 3
        Group(g) == buf[3 * g + 1] * 65536 + buf[3 * g + 2] * 256 + buf[3 * g + 3]
        Rest == IF n % 3 = 1 THEN buf[n] * 16
                ELSE (buf[n - 1] * 256 + buf[n]) * 4
        Pow64(e) == IF e = 0 THEN 1 ELSE IF e = 1 THEN 64
                    ELSE IF e = 2 THEN 4096 ELSE 262144
        CharAt(k) ==
            LET g == (k - 1) \div 4
                j == (k - 1) % 4
            IN  IF g < full THEN B64Char((Group(g) \div Pow64(3 - j)) % 64)
                ELSE IF j > n % 3 THEN PadChar
                ELSE B64Char((Rest \div Pow64((n % 3) - j)) % 64)
    IN  [k \in 1..(4 * full + (IF n % 3 = 0 THEN 0 ELSE 4)) |-> CharAt(k)]

\* mutant: toString("base64url"): '-' and '_' for '+' and '/', no padding
EncodeBuffer_Base64Url(state) ==
    LET t == SelectSeq(BufferToBase64(Uint8Array(state)), LAMBDA c : c # PadChar)
    IN  [i \in 1..Len(t) |-> IF t[i] = PlusChar THEN 45
                             ELSE IF t[i] = SlashChar THEN 95 ELSE t[i]]

\* the encoder of the variants: Buffer.from(state).toString("base64")
EncodeBuffer(state) == BufferToBase64(Uint8Array(state))

Encoders == {"btoa", "buffer"}
EncodeBy(enc, state) ==
    IF enc = "btoa" THEN Encode(state) ELSE EncodeBuffer(state)

\* ---------------------------------------------------------- actions
\* the callers of the concurrent specification: two calls in flight
Procs == {"A", "B"}
NoRequest == [ticket_id |-> "none", ydoc_state |-> NullCol, updated_at |-> 0]
\* a caller that has not called yet
Idle ==
    [pc |-> "idle", op |-> "none", id |-> "none", req |-> NoRequest,
     requests |-> 0, answer |-> "none", form |-> "none", result |-> Undefined]
\* no encoder and no decoder has run
NoVia == [enc |-> "none", form |-> "asWritten", dec |-> "none", branch |-> "none"]

NoCall ==
    [op |-> "none", id |-> "none", state |-> << >>, answer |-> "none",
     form |-> "none", data |-> NoData, result |-> Undefined]

Init ==
    /\ \E f \in [Ids -> LegacyCols \cup {NoData}] :
          table = { [ticket_id |-> id, ydoc_state |-> f[id], updated_at |-> 0]
                        : id \in { i \in Ids : f[i] # NoData } }
    /\ stored = [id \in Ids |-> None]
    /\ replaced = [id \in Ids |-> "no"]
    /\ last = NoCall
    /\ cbytes = << >> /\ ccol = NullCol /\ cres = Undefined /\ cpc = "off"
    /\ cvia = NoVia
    /\ calls = [p \in Procs |-> Idle]

\* mutant: a fetch that finds no row creates an empty one
FetchAnswered_Creates(id, form) ==
    LET resp == SelectSingle(table, id, form)
    IN  /\ last' = [op |-> "fetch", id |-> id, state |-> << >>,
                    answer |-> IF resp.error = "none" THEN "row" ELSE "notFound",
                    form |-> form, data |-> resp.data,
                    result |-> FetchResult(resp)]
        /\ table' = IF resp.error = "none" THEN table
                    ELSE Upsert(table, UpsertRow(id, << >>, 0))
        /\ UNCHANGED << stored, replaced, codecVars, concVars >>

\* fetch({ documentName: id }) whose query the store answers
FetchAnswered(id, form) ==
    LET resp == SelectSingle(table, id, form)
    IN  /\ last' = [op |-> "fetch", id |-> id, state |-> << >>,
                    answer |-> IF resp.error = "none" THEN "row" ELSE "notFound",
                    form |-> form, data |-> resp.data,
                    result |-> FetchResult(resp)]
        /\ UNCHANGED << table, stored, replaced, codecVars, concVars >>

\* fetch whose query the store fails with another error
FetchFailed(id, code) ==
    LET resp == [data |-> NoData, error |-> code]
    IN  /\ last' = [op |-> "fetch", id |-> id, state |-> << >>,
                    answer |-> code, form |-> "none", data |-> NoData,
                    result |-> FetchResult(resp)]
        /\ UNCHANGED << table, stored, replaced, codecVars, concVars >>

\* fetch whose awaited query rejects: the outer catch takes the exception
FetchRejected(id) ==
    /\ last' = [op |-> "fetch", id |-> id, state |-> << >>,
                answer |-> Rejected, form |-> "none", data |-> NoData,
                result |-> TryCatch(Thrown(Rejected), Null)]
    /\ UNCHANGED << table, stored, replaced, codecVars, concVars >>

\* store({ documentName: id, state }) whose upsert the store applies
StoreApplied(id, state, now) ==
    /\ table' = Upsert(table, UpsertRow(id, state, now))
    /\ stored' = [stored EXCEPT ![id] = Some(state)]
    /\ replaced' = [replaced EXCEPT ![id] =
                        IF stored[id] = None THEN "no"
                        ELSE IF stored[id] = Some(state) THEN "same"
                        ELSE "other"]
    /\ last' = [op |-> "store", id |-> id, state |-> state, answer |-> "ok",
                form |-> "none", data |-> NoData, result |-> StoreResult("none")]
    /\ UNCHANGED << codecVars, concVars >>

\* mutant: the row is written by a first request and the error comes from
\* a second one
StoreFailed_Writes(id, state, code) ==
    /\ table' = Upsert(table, UpsertRow(id, state, 0))
    /\ last' = [op |-> "store", id |-> id, state |-> state, answer |-> code,
                form |-> "none", data |-> NoData, result |-> StoreResult(code)]
    /\ UNCHANGED << stored, replaced, codecVars, concVars >>

\* store whose upsert the store reports an error for: nothing is written
StoreFailed(id, state, code) ==
    /\ last' = [op |-> "store", id |-> id, state |-> state, answer |-> code,
                form |-> "none", data |-> NoData, result |-> StoreResult(code)]
    /\ UNCHANGED << table, stored, replaced, codecVars, concVars >>

Next ==
    \/ \E id \in Ids, form \in Forms : FetchAnswered(id, form)
    \/ \E id \in Ids, code \in OtherErrors : FetchFailed(id, code)
    \/ \E id \in Ids : FetchRejected(id)
    \/ \E id \in Ids, state \in States, now \in Times : StoreApplied(id, state, now)
    \/ \E id \in Ids, state \in States, code \in OtherErrors \cup {Rejected} :
          StoreFailed(id, state, code)

Spec == Init /\ [][Next]_vars

\* ------------------------------------------- the codec specification
\* the encoder of store and the decoder of fetch as functions: a byte
\* sequence is drawn, encoded as store encodes it, handed over as written or
\* escaped, and decoded as fetch decodes a column
CodecBytes == { (i * 85) % ByteRange : i \in 0..(NumCodecBytes - 1) }
AllBytes == [i \in 1..ByteRange |-> i - 1]
CodecInputs == BoundedSeq(CodecBytes, MaxCodecLen) \cup { AllBytes, Scenario }

CodecInit ==
    /\ table = {} /\ stored = [id \in Ids |-> None]
    /\ replaced = [id \in Ids |-> "no"] /\ last = NoCall
    /\ cbytes \in CodecInputs
    /\ ccol = NullCol /\ cres = Undefined /\ cpc = "drawn"
    /\ cvia = NoVia
    /\ calls = [p \in Procs |-> Idle]

CodecEncode ==
    /\ cpc = "drawn"
    /\ ccol' = Str(Encode(cbytes))
    /\ cpc' = "written"
    /\ UNCHANGED << cbytes, cres, cvia, adapterVars, concVars >>

CodecSurface(form) ==
    /\ cpc = "written"
    /\ ccol' = Surface(ccol, form)
    /\ cpc' = form
    /\ UNCHANGED << cbytes, cres, cvia, adapterVars, concVars >>

CodecDecode ==
    /\ cpc \in Forms
    /\ cres' = DecodeColumn(ccol)
    /\ cpc' = IF cpc = "asWritten" THEN "decodedWritten" ELSE "decodedEscaped"
    /\ UNCHANGED << cbytes, ccol, cvia, adapterVars, concVars >>

CodecNext ==
    \/ CodecEncode
    \/ \E form \in Forms : CodecSurface(form)
    \/ CodecDecode

CodecSpec == CodecInit /\ [][CodecNext]_vars

\* ------------------------------------------- concurrent specification
\* Calls of fetch and store that overlap: a call issues its request and is
\* suspended at its await; the backing store answers the requests in any
\* order, one at a time, and the call then runs to its return.
MaxConcClock == 2
ConcTimes == 1..MaxConcClock
\* the document states b1 and b2 of the concurrent store calls
ConcStates == { << 0, 1 >>, << 254, 255 >> }
\* the row an id has before the calls, written by an earlier store
InitialRow(id) == UpsertRow(id, Scenario, 0)

\* mutant: a call whose request was answered with an error issues the
\* request once more
Complete_Retry(call, answer, form, result) ==
    IF answer \notin {"ok", "row", "notFound"} /\ call.requests = 1
    THEN [call EXCEPT !.requests = 2]
    ELSE [call EXCEPT !.pc = "done", !.answer = answer, !.form = form,
                      !.result = result]

\* the call resumes with the answer of its request and returns
Complete(call, answer, form, result) ==
    [call EXCEPT !.pc = "done", !.answer = answer, !.form = form,
                 !.result = result]

ConcInit ==
    /\ table \in { { InitialRow(id) : id \in S } : S \in SUBSET Ids }
    /\ stored = [id \in Ids |-> None]
    /\ replaced = [id \in Ids |-> "no"] /\ last = NoCall
    /\ cbytes = << >> /\ ccol = NullCol /\ cres = Undefined /\ cpc = "off"
    /\ cvia = NoVia
    /\ calls = [p \in Procs |-> Idle]

\* fetch is called and awaits its query
ConcFetchCall(p, id) ==
    /\ calls[p].pc = "idle"
    /\ calls' = [calls EXCEPT ![p] =
          [Idle EXCEPT !.pc = "awaiting", !.op = "fetch", !.id = id,
                       !.requests = 1]]
    /\ UNCHANGED << adapterVars, codecVars >>

\* the query is answered with the row or with PGRST116
ConcFetchAnswered(p, form) ==
    /\ calls[p].pc = "awaiting" /\ calls[p].op = "fetch"
    /\ LET resp == SelectSingle(table, calls[p].id, form)
       IN calls' = [calls EXCEPT ![p] =
              Complete(@, IF resp.error = "none" THEN "row" ELSE "notFound",
                       form, FetchResult(resp))]
    /\ UNCHANGED << adapterVars, codecVars >>

\* the query is answered with another error, or the request is rejected
ConcFetchFailed(p, code) ==
    /\ calls[p].pc = "awaiting" /\ calls[p].op = "fetch"
    /\ calls' = [calls EXCEPT ![p] =
          Complete(@, code, "none",
                   IF code = Rejected THEN TryCatch(Thrown(Rejected), Null)
                   ELSE FetchResult([data |-> NoData, error |-> code]))]
    /\ UNCHANGED << adapterVars, codecVars >>

\* store is called, encodes the state and awaits its upsert
ConcStoreCall(p, id, state, now) ==
    /\ calls[p].pc = "idle"
    /\ calls' = [calls EXCEPT ![p] =
          [Idle EXCEPT !.pc = "awaiting", !.op = "store", !.id = id,
                       !.req = UpsertRow(id, state, now), !.requests = 1]]
    /\ UNCHANGED << adapterVars, codecVars >>

\* the upsert is applied and answered without error
ConcStoreApplied(p) ==
    /\ calls[p].pc = "awaiting" /\ calls[p].op = "store"
    /\ table' = Upsert(table, calls[p].req)
    /\ calls' = [calls EXCEPT ![p] =
          Complete(@, "ok", "none", StoreResult("none"))]
    /\ UNCHANGED << stored, replaced, last, codecVars >>

\* the upsert is answered with an error and was not applied
ConcStoreFailed(p, code) ==
    /\ calls[p].pc = "awaiting" /\ calls[p].op = "store"
    /\ calls' = [calls EXCEPT ![p] =
          Complete(@, code, "none", StoreResult(code))]
    /\ UNCHANGED << adapterVars, codecVars >>

ConcNext ==
    \/ \E p \in Procs, id \in Ids : ConcFetchCall(p, id)
    \/ \E p \in Procs, form \in Forms : ConcFetchAnswered(p, form)
    \/ \E p \in Procs, code \in OtherErrors \cup {Rejected} : ConcFetchFailed(p, code)
    \/ \E p \in Procs, id \in Ids, state \in ConcStates, now \in ConcTimes :
          ConcStoreCall(p, id, state, now)
    \/ \E p \in Procs : ConcStoreApplied(p)
    \/ \E p \in Procs, code \in OtherErrors \cup {Rejected} :
          ConcStoreFailed(p, code)

ConcSpec == ConcInit /\ [][ConcNext]_vars

\* ----------------------------------------- the decoder specification
\* Every decoder of the repository applied to column values: values that
\* either encoder of store wrote, as written or escaped, and values found
\* in a row that store did not write.
MaxColLen == 3
\* the characters of the column values: '\', 'x', 'A', '4', '=', '!'
ColChars == { Backslash, LowerX, UpperA, 52, PadChar, 33 }
Texts == BoundedSeq(ColChars, MaxColLen)
\* column values found in the table: short texts, the prefix with a short
\* text after it, the escaped form of a short text, and the other kinds
ColInputs ==
    { Str(t) : t \in Texts }
        \cup { Str(<< Backslash, LowerX >> \o t) : t \in Texts }
        \cup { Surface(Str(t), "escaped") : t \in Texts }
        \cup LegacyCols

DecoderInit ==
    /\ \/ cbytes \in CodecInputs /\ ccol = NullCol /\ cpc = "state"
       \/ cbytes = << >> /\ ccol \in ColInputs /\ cpc = "column"
    /\ cres = Undefined /\ cvia = NoVia
    /\ table = {} /\ stored = [id \in Ids |-> None]
    /\ replaced = [id \in Ids |-> "no"] /\ last = NoCall
    /\ calls = [p \in Procs |-> Idle]

\* store encodes the state with the encoder of one variant
DecoderEncode(enc) ==
    /\ cpc = "state"
    /\ ccol' = Str(EncodeBy(enc, cbytes))
    /\ cvia' = [cvia EXCEPT !.enc = enc]
    /\ cpc' = "column"
    /\ UNCHANGED << cbytes, cres, adapterVars, concVars >>

\* the client hands the written value over in escaped form
DecoderEscape ==
    /\ cpc = "column" /\ cvia.enc # "none" /\ cvia.form = "asWritten"
    /\ ccol' = Surface(ccol, "escaped")
    /\ cvia' = [cvia EXCEPT !.form = "escaped"]
    /\ UNCHANGED << cbytes, cres, cpc, adapterVars, concVars >>

\* fetch decodes the column value with the decoder of one variant
DecoderRun(dec) ==
    /\ cpc = "column"
    /\ cres' = DecodeColumnBy(dec, ccol)
    /\ cvia' = [cvia EXCEPT !.dec = dec, !.branch = BranchBy(dec, ccol)]
    /\ cpc' = "ran"
    /\ UNCHANGED << cbytes, ccol, adapterVars, concVars >>

DecoderNext ==
    \/ \E enc \in Encoders : DecoderEncode(enc)
    \/ DecoderEscape
    \/ \E dec \in Decoders : DecoderRun(dec)

DecoderSpec == DecoderInit /\ [][DecoderNext]_vars

\* ============================================================ claims

\* the state of the last applied store for the id of the last call
LastStored == stored[last.id][1]

C2_RetrievalFailureFails_AsClaimed ==
    last.op = "fetch" =>
        /\ last.answer \in OtherErrors => last.result = Thrown(last.answer)
        /\ last.result = Null => last.answer \notin OtherErrors

\* C3: a store whose upsert reports an error throws that error to the caller,
\* and a store that completes without a throw had an upsert without error.
C3_StoreSurfacesUpsertError ==
    last.op = "store" =>
        /\ last.answer # "ok" => last.result = Thrown(last.answer)
        /\ last.result.kind # "throw" => last.answer = "ok"
        /\ last.answer = "ok" => last.result = Undefined

C3_Witness ==
    /\ last.op = "store" /\ last.answer \in OtherErrors
    /\ last.result = Thrown(last.answer)

\* C4 as claimed: decoding the text store's encoder writes for b gives back b,
\* for every byte sequence b, the empty one included.
C4_RoundTrip_AsClaimed ==
    cpc = "decodedWritten" => cres = Bytes(cbytes)

\* C4 amended: decoding the text store's encoder writes for b gives back b,
\* for every non-empty byte sequence b.
C4_RoundTrip ==
    (cpc = "decodedWritten" /\ cbytes # << >>) => cres = Bytes(cbytes)

C4_Witness ==
    /\ cpc = "decodedWritten" /\ cbytes = AllBytes
    /\ ccol = Str(btoa(AllBytes)) /\ cres = Bytes(AllBytes)

\* C5 as claimed, on a non-empty b2: after store(id, b1) and store(id, b2) were
\* both applied, a fetch(id) whose query succeeds yields b2.
C5_ReplaceThenFetch_AsClaimed ==
    (/\ last.op = "fetch" /\ last.answer = "row"
     /\ replaced[last.id] # "no" /\ LastStored # << >>)
        => last.result = Bytes(LastStored)

\* C6: a successful store(id, b) that directly follows a store(id, b), applied
\* or failed, leaves exactly one row for id, whose column is the base64 text of
\* b and decodes to b; after an applied first call the column is unchanged.
C6_IdempotentStore ==
    [][(/\ last.op = "store" /\ last'.op = "store"
        /\ last'.id = last.id /\ last'.state = last.state
        /\ last'.answer = "ok")
        => LET rows == RowsOf(table', last'.id)
           IN  /\ Cardinality(rows) = 1
               /\ \A r \in rows :
                    /\ r.ydoc_state = Str(btoa(last'.state))
                    /\ ~atobThrows(r.ydoc_state.v)
                    /\ atob(r.ydoc_state.v) = last'.state
               /\ last.answer = "ok" =>
                    { r.ydoc_state : r \in rows }
                        = { r.ydoc_state : r \in RowsOf(table, last.id) }]_vars

C6_Witness ==
    /\ last.op = "store" /\ last.answer = "ok"
    /\ replaced[last.id] = "same"
    /\ RowsOf(table, last.id)
         = { r \in table : r.ticket_id = last.id
                             /\ r.ydoc_state = Str(btoa(last.state)) }
    /\ Cardinality(RowsOf(table, last.id)) = 1

\* a column no format of the decoder decodes: the prefix \x followed by text
\* that is not hexadecimal
IsHex(s) == Len(s) % 2 = 0 /\ \A i \in 1..Len(s) : HexVal(s[i]) # -1
Undecodable(col) ==
    col.kind = "str" /\ StartsWithPrefix(col.v) /\ ~IsHex(Drop(col.v, 2))

\* C7 as claimed: a fetch whose query is answered returns absence when no row
\* matches, when the column is null or empty, and when the column is
\* undecodable.
C7_NotFoundEquivalence_AsClaimed ==
    (/\ last.op = "fetch" /\ last.answer \in {"row", "notFound"}
     /\ \/ last.answer = "notFound"
        \/ ~Truthy(last.data)
        \/ Undecodable(last.data))
        => last.result = Null

\* C8 as claimed, on a non-empty b: a column holding \x and the hexadecimal of
\* the base64 text of b is decoded to the same bytes as a column holding that
\* base64 text.
C8_EscapedEqualsPlain_AsClaimed ==
    (cpc = "decodedEscaped" /\ cbytes # << >>)
        => cres = DecodeColumn(Str(Encode(cbytes)))

\* C9: a store whose upsert fails leaves the table as it was; and when no row
\* existed for its id, a fetch of that id directly after it returns absence.
C9_FailedStoreLeavesTable ==
    [][/\ (last'.op = "store" /\ last'.answer # "ok") => table' = table
       /\ (/\ last.op = "store" /\ last.answer # "ok"
           /\ RowsOf(table, last.id) = {}
           /\ last'.op = "fetch" /\ last'.id = last.id)
            => last'.result = Null]_vars

C9_Witness ==
    /\ last.op = "store" /\ last.answer \in OtherErrors
    /\ last.result = Thrown(last.answer)
    /\ RowsOf(table, last.id) = {}

\* C10: a fetch whose query reports PGRST116 returns null and throws nothing.
C10_NotFoundIsAbsence ==
    (last.op = "fetch" /\ last.answer = "notFound")
        => (last.result = Null /\ last.result.kind # "throw")

C10_Witness ==
    /\ last.op = "fetch" /\ last.answer = "notFound"
    /\ RowsOf(table, last.id) = {}
    /\ last.result = Null

\* C11: after any sequence of store and fetch calls the table holds at most
\* one row for each document id.
C11_AtMostOneRowPerId ==
    \A id \in Ids : Cardinality(RowsOf(table, id)) <= 1
\* a second successful store for an id with another state has been applied
\* on top of the first and the id still has one row, the later one
C11_Witness ==
    /\ last.op = "store" /\ last.answer = "ok"
    /\ replaced[last.id] = "other"
    /\ Cardinality(RowsOf(table, last.id)) = 1
    /\ \A r \in RowsOf(table, last.id) : r.ydoc_state = Str(Encode(last.state))

\* the rows of one id, taken from the table without the query
OwnRows(t, id) == { r \in t : r.ticket_id = id }
\* C12: under any interleaving of fetch and store calls on two ids, a step
\* of a call on one id leaves the rows of the other id as they are, a fetch
\* answers what it would answer against a table that holds only the rows of
\* its own id, and an applied store leaves its id with exactly the row it
\* sent, whatever the calls on the other id did.
C12_IdsAreIndependent ==
    [][\A p \in Procs :
         calls'[p] # calls[p] =>
           LET c == calls'[p]
           IN  /\ \A r \in table \cup table' :
                     r.ticket_id # c.id => (r \in table <=> r \in table')
               /\ (c.pc = "done" /\ c.op = "fetch" /\ c.answer \in {"row", "notFound"})
                     => c.result =
                          FetchResult(SelectSingle(OwnRows(table, c.id), c.id, c.form))
               /\ (c.pc = "done" /\ c.op = "store" /\ c.answer = "ok")
                     => OwnRows(table', c.id) = { c.req }
               /\ (c.pc = "done" /\ c.answer \notin {"ok"}) => table' = table
      ]_vars
\* a store on one id was applied, and the fetch of the other caller on the
\* other id returned the document of its own id, whose row is untouched
C12_Witness ==
    \E p, q \in Procs :
        /\ calls[p].pc = "done" /\ calls[p].op = "store" /\ calls[p].answer = "ok"
        /\ calls[q].pc = "done" /\ calls[q].op = "fetch" /\ calls[q].answer = "row"
        /\ calls[p].id # calls[q].id
        /\ calls[q].form = "asWritten"
        /\ calls[q].result = Bytes(Scenario)
        /\ OwnRows(table, calls[q].id) = { InitialRow(calls[q].id) }
        /\ OwnRows(table, calls[p].id) = { calls[p].req }

\* the callers whose store for id has completed successfully
Writers(id) ==
    { p \in Procs : /\ calls[p].op = "store" /\ calls[p].id = id
                    /\ calls[p].pc = "done" /\ calls[p].answer = "ok" }
\* C15: with store calls for one id in flight at the same time, every row
\* of the id that the table ever shows is whole: it is the row the id had
\* before, or the row one completed store sent, its encoded state together
\* with the timestamp of that same call; and once stores for the id have
\* completed successfully the id has exactly one row, sent by one of them.
C15_ConcurrentStoresAreAtomic ==
    \A id \in Ids :
        /\ OwnRows(table, id) \subseteq
              { InitialRow(id) } \cup { calls[p].req : p \in Writers(id) }
        /\ Writers(id) # {} =>
              \E p \in Writers(id) : OwnRows(table, id) = { calls[p].req }
\* both callers stored different states for the same id at different times
\* over an existing row, both completed, and the row is the one of the two
C15_Witness ==
    \E id \in Ids :
        /\ Writers(id) = Procs
        /\ \A p, q \in Procs :
              p # q => /\ calls[p].req.ydoc_state # calls[q].req.ydoc_state
                       /\ calls[p].req.updated_at # calls[q].req.updated_at
        /\ \E p \in Procs :
              /\ OwnRows(table, id) = { calls[p].req }
              /\ calls[p].req.ydoc_state \in { Str(Encode(b)) : b \in ConcStates }

\* C16: every call has issued exactly one request to the backing store
\* from its call to its return, a call returns at the first answer of its
\* request, and an answer with an error makes fetch return null and store
\* fail with that error, without a second request.
C16_OneRequestPerCall ==
    \A p \in Procs :
        /\ calls[p].pc = "idle" => calls[p].requests = 0
        /\ calls[p].pc # "idle" => calls[p].requests = 1
        /\ (calls[p].pc = "done" /\ calls[p].answer \notin {"ok", "row", "notFound"})
              => IF calls[p].op = "fetch" THEN calls[p].result = Null
                 ELSE calls[p].result = Thrown(calls[p].answer)
\* one caller's store failed on its only request and the other caller's
\* fetch got null on its only request
C16_Witness ==
    \E p, q \in Procs :
        /\ calls[p].pc = "done" /\ calls[p].op = "store"
        /\ calls[p].answer \in OtherErrors /\ calls[p].requests = 1
        /\ calls[p].result = Thrown(calls[p].answer)
        /\ calls[q].pc = "done" /\ calls[q].op = "fetch"
        /\ calls[q].answer \in OtherErrors /\ calls[q].requests = 1
        /\ calls[q].result = Null

\* C17: fetch never raises an exception to its caller: whatever the query
\* answers (a row with any column value, not-found, another error, a
\* rejected request), fetch completes with a byte sequence or with null.
C17_FetchNeverThrows ==
    last.op = "fetch" => last.result.kind \in {"bytes", "null"}
\* a fetch whose request was rejected with an exception completed with null
C17_Witness ==
    /\ last.op = "fetch" /\ last.answer = Rejected /\ last.result = Null

\* C18: fetch is read-only: a fetch step leaves the table as it is; and an
\* id that had no row gets one only in the step of a successful store for
\* that id.
C18_FetchIsReadOnly ==
    [][ /\ last'.op = "fetch" => table' = table
        /\ \A id \in Ids :
              (OwnRows(table, id) = {} /\ OwnRows(table', id) # {})
                 => /\ last'.op = "store" /\ last'.id = id
                    /\ last'.answer = "ok"
                    /\ \A r \in OwnRows(table', id) :
                          r.ydoc_state = Str(Encode(last'.state))
      ]_vars
\* a fetch for an id without a row found nothing and left the id without a
\* row, while the other id has the row a store created
C18_Witness ==
    /\ last.op = "fetch" /\ last.answer = "notFound"
    /\ OwnRows(table, last.id) = {}
    /\ \E other \in Ids \ {last.id} :
          /\ stored[other] # None
          /\ Cardinality(OwnRows(table, other)) = 1

\* the decoder as the specification describes it: the first test that
\* matches decides
DecoderReference(col) ==
    IF col.kind = "buf" THEN Bytes(col.v)
    ELSE IF StartsWithPrefix(col.v)
    THEN Bytes(BufferFromBase64(ToUtf8String(BufferFromHex(Drop(col.v, 2)))))
    ELSE IF IsBase64Text(col.v) THEN Bytes(BufferFromBase64(col.v))
    ELSE Bytes([i \in 1..Len(col.v) |-> col.v[i] % ByteRange])
\* the text after the prefix is not hexadecimal, or the text it stands for
\* is not base64
Malformed(col) ==
    /\ col.kind = "str" /\ StartsWithPrefix(col.v)
    /\ \/ ~IsHex(Drop(col.v, 2))
       \/ atobThrows(ToUtf8String(BufferFromHex(Drop(col.v, 2))))
\* C13 as claimed: for every non-empty buffer or string column, the decoder
\* of fetch returns what the reference returns: the bytes of a buffer; for
\* a string with the prefix, the base64 decoding of the hex-decoded text;
\* for a string in the base64 alphabet, its base64 decoding; for any other
\* string, one byte per character.
C13_DecoderFollowsReference_AsClaimed ==
    (/\ cpc = "ran" /\ cvia.dec = "server"
     /\ ccol.kind \in {"buf", "str"} /\ Truthy(ccol) /\ ~Malformed(ccol))
        => cres = DecoderReference(ccol)

\* C14 as claimed: for a column that starts with the prefix and whose
\* remainder is not valid hexadecimal, or whose hex-decoded text is not
\* valid base64, fetch returns null, not a byte sequence.
C14_MalformedIsAbsence_AsClaimed ==
    (/\ cpc = "ran" /\ cvia.dec \in {"server", "prefixFirst"}
     /\ Malformed(ccol))
        => cres = Null

\* C19: no string both starts with the prefix and matches the base64
\* pattern, so the prefix-first and the base64-first variant take the same
\* branch for every string column; and the value either encoder of store
\* writes matches the base64 pattern and does not start with the prefix.
C19_TestsAreExclusive ==
    ccol.kind = "str" =>
        /\ ~(StartsWithPrefix(ccol.v) /\ IsBase64Text(ccol.v))
        /\ Branch_PrefixFirst(ccol.v) = Branch_Base64First(ccol.v)
        /\ (cpc = "ran" /\ cvia.dec \in {"prefixFirst", "base64First"} /\ Truthy(ccol))
              => /\ cvia.branch = Branch_PrefixFirst(ccol.v)
                 /\ cvia.branch = Branch_Base64First(ccol.v)
        /\ (cvia.enc # "none" /\ cvia.form = "asWritten")
              => IsBase64Text(ccol.v) /\ ~StartsWithPrefix(ccol.v)
\* the value the Buffer encoder wrote for the scenario, escaped, was read
\* by the base64-first variant, which took the hex branch
C19_Witness ==
    /\ cpc = "ran" /\ cbytes = Scenario
    /\ cvia = [enc |-> "buffer", form |-> "escaped", dec |-> "base64First",
               branch |-> "hex"]
    /\ Branch_PrefixFirst(ccol.v) = "hex"

\* the encoder that did not write the column
OtherEncoder(enc) == IF enc = "btoa" THEN "buffer" ELSE "btoa"
\* C20: for every byte sequence the btoa encoder and the Buffer encoder
\* write the same column value, and what any one decoder reads from the
\* value one encoder wrote is what it reads from the value of the other.
C20_EncodersAgree ==
    cvia.enc # "none" =>
        /\ ccol = Surface(Str(EncodeBy(OtherEncoder(cvia.enc), cbytes)), cvia.form)
        /\ cpc = "ran" =>
              cres = DecodeColumnBy(cvia.dec,
                        Surface(Str(EncodeBy(OtherEncoder(cvia.enc), cbytes)),
                                cvia.form))
\* all 256 byte values written by the Buffer encoder, escaped, and read
\* back whole by the prefix-first variant
C20_Witness ==
    /\ cpc = "ran" /\ cbytes = AllBytes
    /\ cvia.enc = "buffer" /\ cvia.form = "escaped" /\ cvia.dec = "prefixFirst"
    /\ ccol = Surface(Str(Encode(AllBytes)), "escaped")
    /\ cres = Bytes(AllBytes)

\* C21: when the query succeeds and the column of the row holds a non-empty
\* value that is neither a Buffer nor a string, fetch returns null: not a
\* byte sequence decoded from the value and not a failure.
C21_UnexpectedFormatIsAbsence ==
    (/\ last.op = "fetch" /\ last.answer = "row"
     /\ last.data.kind \notin {"buf", "str", "null", "none"}
     /\ Truthy(last.data))
        => last.result = Null
\* a fetch found a row whose column holds the number 7 and returned null
C21_Witness ==
    /\ last.op = "fetch" /\ last.answer = "row"
    /\ last.data = NumCol /\ Truthy(NumCol)
    /\ last.result = Null
    /\ \E r \in OwnRows(table, last.id) : r.ydoc_state = NumCol
====
